---------------------------- MODULE Spec2Model ----------------------------
(***************************************************************************)
(* A model of src/main.py: the ETL pipeline that fetches a term's Business *)
(* classes, removes duplicate sections, merges the classes per instructor, *)
(* resolves instructor names and emails, and writes a CSV file.            *)
(*                                                                         *)
(* Strings whose contents the code inspects (course codes, instructor      *)
(* names, captured name texts) are sequences of code points:               *)
(*   10 "\n"  32 " "  44 ","  65 "A"  66 "B"  68 "D"  69 "E"  72 "H"       *)
(*   74 "J".  Opaque strings (messages, emails, the term label) are TLA+   *)
(* strings.  A dataframe is a sequence of records (its rows, in order).    *)
(***************************************************************************)
EXTENDS Integers, Sequences, FiniteSets, TLC

VARIABLES
    pc,                     \* position of the run in etl_pipeline
    major_idx,              \* get_classes: index of the next major queried
    data_frames,            \* get_classes: the per-major frames collected
    next_crn,               \* catalog: CRN of the next section it returns
    cancelled,              \* catalog: CRNs returned with isCancelled = "1"
    df,                     \* etl_pipeline: result of get_classes
    df_without_duplicates,  \* etl_pipeline: result of remove_duplicates
    df_merged,              \* etl_pipeline: result of merge_classes_for_instructor
    api_data,               \* get_instructor_name: the last detail response
    first_names,            \* get_instructor_name: list being built
    last_names,             \* get_instructor_name: list being built
    df_with_full_names,     \* etl_pipeline: result of get_instructor_name
    conn_bound,             \* get_emails: the LDAP connection is bound
    bind_count,             \* get_emails: number of successful binds
    connect_response,       \* get_emails: connect.response of the last search
    email_list,             \* get_emails: list being built
    df_emails,              \* etl_pipeline: result of get_emails
    csv,                    \* the output file
    stdout,                 \* the messages printed so far
    norm_hist               \* successive hybrid-suffix normalizations of a code

vars == <<pc, major_idx, data_frames, next_crn, cancelled, df,
          df_without_duplicates, df_merged, api_data, first_names, last_names,
          df_with_full_names, conn_bound, bind_count, connect_response,
          email_list, df_emails, csv, stdout, norm_hist>>

----------------------------------------------------------------------------
(* Bounds of the model *)

MaxSections == 3       \* sections the catalog returns in one run
MaxResults == 2        \* sections in one search response
MaxEntries == 2        \* entries in one directory response
MaxRows == 3           \* rows of a dataframe handed to remove_duplicates
MaxCodeLen == 3        \* characters of a course code being normalized

----------------------------------------------------------------------------
(* Program constants *)

majors == <<"MGMT", "HM", "FIN", "DSGN", "SCLM", "MRKT", "BIS", "BANA", "BA", "ACTG">>

TermLabel == "Spring 2023"

None == "None"

ColumnOrder == <<"Last_Name", "First_Name", "Term", "Course", "Email">>

MsgApiFailed == "Error... API call failed:"
MsgRetrieved == "Courses retrieved from API."
MsgDedup == "Duplicates removed."
MsgMerged == "Courses merged."
MsgNames == "First and last names added to the dataframe."
MsgBindError == "error in bind"
MsgSearchError == "Error... searching"
MsgEmails == "Emails added to the dataframe."
MsgCsv == "Csv file downloaded."

----------------------------------------------------------------------------
(* Inputs *)

\* course codes and instructor display names the catalog returns in a run
CatalogCodes == {<<65>>, <<66, 72>>}
CatalogInstructors == {<<66>>, <<65>>}
IsCancelledValues == {"1", "", "absent"}

\* course codes and instructor names of dataframes given to remove_duplicates
FrameCodes == {<<65>>, <<65, 72>>, <<65, 72, 72>>, <<66>>}
FrameInstructors == {<<66>>, <<65>>, <<65, 66>>}

\* texts captured by the instructor-detail pattern: "J", "J D", " D", "J D E"
NameTexts == {<<74>>, <<74, 32, 68>>, <<32, 68>>, <<74, 32, 68, 32, 69>>}

Emails == {"doej@oregonstate.edu", "doej2@oregonstate.edu"}

CodeAlphabet == {65, 72, 10}
CodeStrings == UNION {[1..n -> CodeAlphabet] : n \in 0..MaxCodeLen}

----------------------------------------------------------------------------
(* Helpers on sequences and strings *)

Last(s) == s[Len(s)]

RECURSIVE Concat(_)
\* pd.concat(frames, ignore_index=True): the frames' rows, in order
Concat(frames) ==
    IF frames = <<>> THEN <<>> ELSE Head(frames) \o Concat(Tail(frames))

\* Python's order on str: lexicographic by code point, a proper prefix first
StrLess(a, b) ==
    \E k \in 1..(Len(a) + 1) :
        /\ \A i \in 1..(k - 1) : i <= Len(b) /\ a[i] = b[i]
        /\ k <= Len(b)
        /\ (k > Len(a) \/ a[k] < b[k])

RECURSIVE SortedSeq(_)
\* the elements of a set of strings in ascending order
SortedSeq(S) ==
    IF S = {} THEN <<>>
    ELSE LET m == CHOOSE x \in S : \A y \in S \ {x} : StrLess(x, y)
         IN  <<m>> \o SortedSeq(S \ {m})

RECURSIVE Join(_)
\* ", ".join(strs)
Join(strs) ==
    IF strs = <<>> THEN <<>>
    ELSE IF Len(strs) = 1 THEN strs[1]
    ELSE strs[1] \o <<44, 32>> \o Join(Tail(strs))

\* full_name.split(' ', 1): the list of parts
Split1(s) ==
    IF \A i \in 1..Len(s) : s[i] # 32 THEN <<s>>
    ELSE LET k == CHOOSE i \in 1..Len(s) :
                      s[i] = 32 /\ \A j \in 1..(i - 1) : s[j] # 32
         IN  <<SubSeq(s, 1, k - 1), SubSeq(s, k + 1, Len(s))>>

----------------------------------------------------------------------------
(* get_classes *)

\* a faulty variant of FilterCancelled: the flag is compared with nothing
FilterCancelledKeepAll(results) == results

\* [result for result in results if result.get("isCancelled") != "1"]
FilterCancelled(results) == SelectSeq(results, LAMBDA r : r.isCancelled # "1")

\* pd.DataFrame({'Term': ..., 'CRN': ..., 'Course': ..., 'Instructor': ...})
NewData(results) ==
    [i \in 1..Len(results) |->
        [Term |-> TermLabel, CRN |-> results[i].crn,
         Course |-> results[i].code, Instructor |-> results[i].instr]]

----------------------------------------------------------------------------
(* remove_duplicates *)

\* str.replace("H$", "", regex=True): re.sub of one "H" standing at the end of
\* the string or just before a newline that ends the string
Normalize(c) ==
    IF Len(c) >= 1 /\ c[Len(c)] = 72 THEN SubSeq(c, 1, Len(c) - 1)
    ELSE IF Len(c) >= 2 /\ c[Len(c)] = 10 /\ c[Len(c) - 1] = 72
         THEN SubSeq(c, 1, Len(c) - 2) \o <<10>>
    ELSE c

SameKey(r1, r2) == r1.Course = r2.Course /\ r1.Instructor = r2.Instructor

\* a faulty variant of DropDuplicates: keep="last"
DropDuplicatesKeepLast(frame) ==
    LET F[n \in 0..Len(frame)] ==
            IF n = 0 THEN <<>>
            ELSE IF \E j \in (n + 1)..Len(frame) : SameKey(frame[j], frame[n])
                 THEN F[n - 1]
                 ELSE Append(F[n - 1], frame[n])
    IN  F[Len(frame)]

\* drop_duplicates(subset=["Course", "Instructor"], keep="first").reset_index(drop=True)
DropDuplicates(frame) ==
    LET F[n \in 0..Len(frame)] ==
            IF n = 0 THEN <<>>
            ELSE IF \E j \in 1..(n - 1) : SameKey(frame[j], frame[n])
                 THEN F[n - 1]
                 ELSE Append(F[n - 1], frame[n])
    IN  F[Len(frame)]

\* df["Course"] = df["Course"].str.replace("H$", "", regex=True)
NormalizeCourses(frame) ==
    [i \in 1..Len(frame) |-> [frame[i] EXCEPT !.Course = Normalize(@)]]

\* a faulty variant of RemoveDuplicates: no uniqueness pass after the normalization
RemoveDuplicatesOnePass(dataframe) ==
    NormalizeCourses(DropDuplicates(dataframe))

RemoveDuplicates(dataframe) ==
    DropDuplicates(NormalizeCourses(DropDuplicates(dataframe)))

----------------------------------------------------------------------------
(* merge_classes_for_instructor *)

\* the rows of one group, in the frame's order
GroupRows(dataframe, name) ==
    SelectSeq(dataframe, LAMBDA r : r.Instructor = name)

\* a faulty variant of GroupKeys: groupby(..., sort=False), keys in first-seen order
GroupKeysFirstSeen(dataframe) ==
    LET F[n \in 0..Len(dataframe)] ==
            IF n = 0 THEN <<>>
            ELSE IF \E j \in 1..(n - 1) :
                        dataframe[j].Instructor = dataframe[n].Instructor
                 THEN F[n - 1]
                 ELSE Append(F[n - 1], dataframe[n].Instructor)
    IN  F[Len(dataframe)]

\* groupby("Instructor"): sort=True is the default, the group keys ascending
GroupKeys(dataframe) ==
    SortedSeq({dataframe[i].Instructor : i \in 1..Len(dataframe)})

\* .agg({"Course": ", ".join, "Term": "first", "CRN": "first"}) on one group
Agg(name, rows) ==
    [Instructor |-> name,
     Course |-> Join([i \in 1..Len(rows) |-> rows[i].Course]),
     Term |-> rows[1].Term,
     CRN |-> rows[1].CRN]

\* a faulty variant of MergeClassesForInstructor: every row is its own group
MergeEachRowAlone(dataframe) ==
    [i \in 1..Len(dataframe) |->
        Agg(dataframe[i].Instructor, <<dataframe[i]>>)]

MergeClassesForInstructor(dataframe) ==
    LET keys == GroupKeys(dataframe)
    IN  [g \in 1..Len(keys) |-> Agg(keys[g], GroupRows(dataframe, keys[g]))]

----------------------------------------------------------------------------
(* get_instructor_name *)

NoResponse == [kind |-> "none", match |-> FALSE, text |-> <<>>]

\* what the detail endpoint can answer: a transport error or a body that is no
\* JSON, JSON without instructordetail_html, or JSON with the field, whose
\* fragment matches the pattern (capturing text) or does not
DetailResponses ==
    {[kind |-> k, match |-> FALSE, text |-> <<>>] : k \in {"error", "nofield", "html"}}
    \cup {[kind |-> "html", match |-> TRUE, text |-> t] : t \in NameTexts}

\* dataframe.drop(['Instructor', 'CRN'], axis=1) and the two new columns
WithFullNames(dataframe, firsts, lasts) ==
    [i \in 1..Len(dataframe) |->
        [Course |-> dataframe[i].Course, Term |-> dataframe[i].Term,
         First_Name |-> firsts[i], Last_Name |-> lasts[i]]]

----------------------------------------------------------------------------
(* get_emails *)

\* what a search can leave in connect.response: entries with distinct
\* principal names, in some order
DirectoryResponses ==
    {r \in UNION {[1..n -> [userPrincipalName : Emails]] : n \in 0..MaxEntries} :
        \A i, j \in 1..Len(r) : i # j => r[i] # r[j]}

\* a faulty variant of ExtractEmail: the last entry instead of the first
ExtractEmailLast(response) ==
    IF Len(response) >= 1 THEN response[Len(response)].userPrincipalName ELSE None

\* the value appended to email_list after a search
ExtractEmail(response) ==
    IF Len(response) >= 1 THEN response[1].userPrincipalName ELSE None

\* dataframe['Email'] = email_list
WithEmails(dataframe, emails) ==
    [i \in 1..Len(dataframe) |->
        [Course |-> dataframe[i].Course, Term |-> dataframe[i].Term,
         First_Name |-> dataframe[i].First_Name,
         Last_Name |-> dataframe[i].Last_Name, Email |-> emails[i]]]

----------------------------------------------------------------------------
(* etl_pipeline: the output file *)

NotWritten == [written |-> FALSE, header |-> <<>>, rows |-> <<>>]

\* df_emails[column_order].to_csv(..., index=False)
ToCsvFile(dataframe) ==
    [written |-> TRUE, header |-> ColumnOrder,
     rows |-> [i \in 1..Len(dataframe) |->
                  <<dataframe[i].Last_Name, dataframe[i].First_Name,
                    dataframe[i].Term, dataframe[i].Course, dataframe[i].Email>>]]

----------------------------------------------------------------------------
(* The run of etl_pipeline *)

PipelineVars == <<pc, major_idx, data_frames, next_crn, cancelled, df,
                  df_without_duplicates, df_merged, api_data, first_names,
                  last_names, df_with_full_names, conn_bound, bind_count,
                  connect_response, email_list, df_emails, csv, stdout>>

Init ==
    /\ pc = "get_classes"
    /\ major_idx = 1
    /\ data_frames = <<>>
    /\ next_crn = 1
    /\ cancelled = {}
    /\ df = <<>>
    /\ df_without_duplicates = <<>>
    /\ df_merged = <<>>
    /\ api_data = NoResponse
    /\ first_names = <<>>
    /\ last_names = <<>>
    /\ df_with_full_names = <<>>
    /\ conn_bound = FALSE
    /\ bind_count = 0
    /\ connect_response = <<>>
    /\ email_list = <<>>
    /\ df_emails = <<>>
    /\ csv = NotWritten
    /\ stdout = <<>>
    /\ norm_hist = <<>>

\* print(message); exit(1)
Abort(message) ==
    /\ stdout' = Append(stdout, message)
    /\ pc' = "aborted"

\* get_classes, one major: the search answers with a results array
GetClassesMajor ==
    /\ pc = "get_classes"
    /\ major_idx <= Len(majors)
    /\ \E n \in 0..MaxResults :
        /\ (next_crn - 1) + n <= MaxSections
        /\ \E body \in [1..n -> [code : CatalogCodes, instr : CatalogInstructors,
                                 isCancelled : IsCancelledValues]] :
            LET results == [i \in 1..n |->
                               [crn |-> next_crn + i - 1, code |-> body[i].code,
                                instr |-> body[i].instr,
                                isCancelled |-> body[i].isCancelled]]
            IN  /\ data_frames' = Append(data_frames, NewData(FilterCancelled(results)))
                /\ cancelled' = cancelled \cup
                       {results[i].crn : i \in {j \in 1..n : results[j].isCancelled = "1"}}
                /\ next_crn' = next_crn + n
    /\ major_idx' = major_idx + 1
    /\ UNCHANGED <<pc, df, df_without_duplicates, df_merged, api_data, first_names,
                   last_names, df_with_full_names, conn_bound, bind_count,
                   connect_response, email_list, df_emails, csv, stdout, norm_hist>>

\* get_classes, one major: the request fails, the body is no JSON, or a field
\* ('results', 'crn', 'code', 'instr') is missing
GetClassesError ==
    /\ pc = "get_classes"
    /\ major_idx <= Len(majors)
    /\ Abort(MsgApiFailed)
    /\ UNCHANGED <<major_idx, data_frames, next_crn, cancelled, df,
                   df_without_duplicates, df_merged, api_data, first_names,
                   last_names, df_with_full_names, conn_bound, bind_count,
                   connect_response, email_list, df_emails, csv, norm_hist>>

\* get_classes: after the last major
GetClassesReturn ==
    /\ pc = "get_classes"
    /\ major_idx > Len(majors)
    /\ df' = Concat(data_frames)
    /\ data_frames' = <<>>
    /\ stdout' = Append(stdout, MsgRetrieved)
    /\ pc' = "remove_duplicates"
    /\ UNCHANGED <<major_idx, next_crn, cancelled, df_without_duplicates, df_merged,
                   api_data, first_names, last_names, df_with_full_names,
                   conn_bound, bind_count, connect_response, email_list,
                   df_emails, csv, norm_hist>>

RemoveDuplicatesStep ==
    /\ pc = "remove_duplicates"
    /\ df_without_duplicates' = RemoveDuplicates(df)
    /\ stdout' = Append(stdout, MsgDedup)
    /\ pc' = "merge_classes_for_instructor"
    /\ UNCHANGED <<major_idx, data_frames, next_crn, cancelled, df, df_merged,
                   api_data, first_names, last_names, df_with_full_names,
                   conn_bound, bind_count, connect_response, email_list,
                   df_emails, csv, norm_hist>>

MergeStep ==
    /\ pc = "merge_classes_for_instructor"
    /\ df_merged' = MergeClassesForInstructor(df_without_duplicates)
    /\ stdout' = Append(stdout, MsgMerged)
    /\ pc' = "get_instructor_name"
    /\ UNCHANGED <<major_idx, data_frames, next_crn, cancelled, df,
                   df_without_duplicates, api_data, first_names, last_names,
                   df_with_full_names, conn_bound, bind_count, connect_response,
                   email_list, df_emails, csv, norm_hist>>

\* get_instructor_name, one CRN: the body of the try block
ResolveName(resp) ==
    IF resp.kind # "html"
    THEN /\ Abort(MsgApiFailed)
         /\ UNCHANGED <<first_names, last_names>>
    ELSE IF ~resp.match
    THEN /\ first_names' = Append(first_names, <<>>)
         /\ last_names' = Append(last_names, <<>>)
         /\ UNCHANGED <<pc, stdout>>
    ELSE LET parts == Split1(resp.text)
         IN  IF Len(parts) # 2
             THEN \* first_name, last_name = [one part] raises ValueError
                  /\ Abort(MsgApiFailed)
                  /\ UNCHANGED <<first_names, last_names>>
             ELSE /\ first_names' = Append(first_names, parts[1])
                  /\ last_names' = Append(last_names, parts[2])
                  /\ UNCHANGED <<pc, stdout>>

GetInstructorNameCrn ==
    /\ pc = "get_instructor_name"
    /\ Len(first_names) < Len(df_merged)
    /\ \E resp \in DetailResponses :
        /\ api_data' = resp
        /\ ResolveName(resp)
    /\ UNCHANGED <<major_idx, data_frames, next_crn, cancelled, df,
                   df_without_duplicates, df_merged, df_with_full_names,
                   conn_bound, bind_count, connect_response, email_list,
                   df_emails, csv, norm_hist>>

GetInstructorNameReturn ==
    /\ pc = "get_instructor_name"
    /\ Len(first_names) = Len(df_merged)
    /\ df_with_full_names' = WithFullNames(df_merged, first_names, last_names)
    /\ stdout' = Append(stdout, MsgNames)
    /\ pc' = "get_emails"
    /\ UNCHANGED <<major_idx, data_frames, next_crn, cancelled, df,
                   df_without_duplicates, df_merged, api_data, first_names,
                   last_names, conn_bound, bind_count, connect_response,
                   email_list, df_emails, csv, norm_hist>>

\* get_emails: config.json cannot be opened or read; the exception is not caught
GetEmailsConfigError ==
    /\ pc = "get_emails"
    /\ pc' = "aborted"
    /\ UNCHANGED <<major_idx, data_frames, next_crn, cancelled, df,
                   df_without_duplicates, df_merged, api_data, first_names,
                   last_names, df_with_full_names, conn_bound, bind_count,
                   connect_response, email_list, df_emails, csv, stdout, norm_hist>>

\* get_emails: connect.bind() succeeds
GetEmailsBind ==
    /\ pc = "get_emails"
    /\ conn_bound' = TRUE
    /\ bind_count' = bind_count + 1
    /\ pc' = "search"
    /\ UNCHANGED <<major_idx, data_frames, next_crn, cancelled, df,
                   df_without_duplicates, df_merged, api_data, first_names,
                   last_names, df_with_full_names, connect_response, email_list,
                   df_emails, csv, stdout, norm_hist>>

\* a faulty variant of GetEmailsBindError: the message is printed and the stage goes on
GetEmailsBindErrorGoesOn ==
    /\ pc = "get_emails"
    /\ stdout' = Append(stdout, MsgBindError)
    /\ pc' = "search"
    /\ UNCHANGED <<major_idx, data_frames, next_crn, cancelled, df,
                   df_without_duplicates, df_merged, api_data, first_names,
                   last_names, df_with_full_names, conn_bound, bind_count,
                   connect_response, email_list, df_emails, csv, norm_hist>>

\* get_emails: connect.bind() returns False
GetEmailsBindError ==
    /\ pc = "get_emails"
    /\ Abort(MsgBindError)
    /\ UNCHANGED <<major_idx, data_frames, next_crn, cancelled, df,
                   df_without_duplicates, df_merged, api_data, first_names,
                   last_names, df_with_full_names, conn_bound, bind_count,
                   connect_response, email_list, df_emails, csv, norm_hist>>

\* get_emails, one row: the search returns
GetEmailsSearch ==
    /\ pc = "search"
    /\ Len(email_list) < Len(df_with_full_names)
    /\ \E resp \in DirectoryResponses :
        /\ connect_response' = resp
        /\ email_list' = Append(email_list, ExtractEmail(resp))
    /\ UNCHANGED <<pc, major_idx, data_frames, next_crn, cancelled, df,
                   df_without_duplicates, df_merged, api_data, first_names,
                   last_names, df_with_full_names, conn_bound, bind_count,
                   df_emails, csv, stdout, norm_hist>>

\* get_emails, one row: the search raises
GetEmailsSearchError ==
    /\ pc = "search"
    /\ Len(email_list) < Len(df_with_full_names)
    /\ Abort(MsgSearchError)
    /\ UNCHANGED <<major_idx, data_frames, next_crn, cancelled, df,
                   df_without_duplicates, df_merged, api_data, first_names,
                   last_names, df_with_full_names, conn_bound, bind_count,
                   connect_response, email_list, df_emails, csv, norm_hist>>

GetEmailsReturn ==
    /\ pc = "search"
    /\ Len(email_list) = Len(df_with_full_names)
    /\ df_emails' = WithEmails(df_with_full_names, email_list)
    /\ stdout' = Append(stdout, MsgEmails)
    /\ pc' = "to_csv"
    /\ UNCHANGED <<major_idx, data_frames, next_crn, cancelled, df,
                   df_without_duplicates, df_merged, api_data, first_names,
                   last_names, df_with_full_names, conn_bound, bind_count,
                   connect_response, email_list, csv, norm_hist>>

\* etl_pipeline: the column order and to_csv
WriteCsv ==
    /\ pc = "to_csv"
    /\ csv' = ToCsvFile(df_emails)
    /\ stdout' = Append(stdout, MsgCsv)
    /\ pc' = "done"
    /\ UNCHANGED <<major_idx, data_frames, next_crn, cancelled, df,
                   df_without_duplicates, df_merged, api_data, first_names,
                   last_names, df_with_full_names, conn_bound, bind_count,
                   connect_response, email_list, df_emails, norm_hist>>

Next ==
    \/ GetClassesMajor
    \/ GetClassesError
    \/ GetClassesReturn
    \/ RemoveDuplicatesStep
    \/ MergeStep
    \/ GetInstructorNameCrn
    \/ GetInstructorNameReturn
    \/ GetEmailsConfigError
    \/ GetEmailsBind
    \/ GetEmailsBindError
    \/ GetEmailsSearch
    \/ GetEmailsSearchError
    \/ GetEmailsReturn
    \/ WriteCsv

Spec == Init /\ [][Next]_vars

----------------------------------------------------------------------------
(* remove_duplicates and merge_classes_for_instructor on any dataframe *)

InitFrames ==
    /\ pc = "remove_duplicates"
    /\ major_idx = Len(majors) + 1
    /\ data_frames = <<>>
    /\ next_crn = 1
    /\ cancelled = {}
    /\ \E n \in 0..MaxRows :
        \E body \in [1..n -> [Course : FrameCodes, Instructor : FrameInstructors]] :
            df = [i \in 1..n |->
                     [Term |-> TermLabel, CRN |-> i, Course |-> body[i].Course,
                      Instructor |-> body[i].Instructor]]
    /\ df_without_duplicates = <<>>
    /\ df_merged = <<>>
    /\ api_data = NoResponse
    /\ first_names = <<>>
    /\ last_names = <<>>
    /\ df_with_full_names = <<>>
    /\ conn_bound = FALSE
    /\ bind_count = 0
    /\ connect_response = <<>>
    /\ email_list = <<>>
    /\ df_emails = <<>>
    /\ csv = NotWritten
    /\ stdout = <<MsgRetrieved>>
    /\ norm_hist = <<>>

NextFrames ==
    \/ RemoveDuplicatesStep
    \/ MergeStep

SpecFrames == InitFrames /\ [][NextFrames]_vars

----------------------------------------------------------------------------
(* The hybrid-suffix normalization applied to a code again and again *)

InitNormalize ==
    /\ pc = "normalize"
    /\ major_idx = 1
    /\ data_frames = <<>>
    /\ next_crn = 1
    /\ cancelled = {}
    /\ df = <<>>
    /\ df_without_duplicates = <<>>
    /\ df_merged = <<>>
    /\ api_data = NoResponse
    /\ first_names = <<>>
    /\ last_names = <<>>
    /\ df_with_full_names = <<>>
    /\ conn_bound = FALSE
    /\ bind_count = 0
    /\ connect_response = <<>>
    /\ email_list = <<>>
    /\ df_emails = <<>>
    /\ csv = NotWritten
    /\ stdout = <<>>
    /\ \E c \in CodeStrings : norm_hist = <<c>>

NormalizeStep ==
    /\ pc = "normalize"
    /\ Len(norm_hist) < 3
    /\ norm_hist' = Append(norm_hist, Normalize(Last(norm_hist)))
    /\ UNCHANGED PipelineVars

NextNormalize == NormalizeStep

SpecNormalize == InitNormalize /\ [][NextNormalize]_vars

----------------------------------------------------------------------------
(* Vocabulary of the properties *)

Printed(message) == \E i \in 1..Len(stdout) : stdout[i] = message

DedupDone == Printed(MsgDedup)
MergeDone == Printed(MsgMerged)

Rows(frame) == {frame[i] : i \in 1..Len(frame)}

\* the distinct elements of a sequence, each once, in first-encounter order
DistinctInOrder(s) ==
    LET F[n \in 0..Len(s)] ==
            IF n = 0 THEN <<>>
            ELSE IF \E j \in 1..(n - 1) : s[j] = s[n] THEN F[n - 1]
                 ELSE Append(F[n - 1], s[n])
    IN  F[Len(s)]

\* the records of one instructor in a frame, in the frame's order
RecordsOf(frame, name) == SelectSeq(frame, LAMBDA r : r.Instructor = name)

\* the normalized codes one instructor teaches in a raw frame
ExpectedCodes(frame, name) ==
    LET mine == RecordsOf(frame, name)
    IN  DistinctInOrder([i \in 1..Len(mine) |-> Normalize(mine[i].Course)])

\* the index of an instructor's first record in a frame
FirstIndex(frame, name) ==
    CHOOSE i \in 1..Len(frame) :
        /\ frame[i].Instructor = name
        /\ \A j \in 1..(i - 1) : frame[j].Instructor # name

\* a name text up to its first space (all of it when it has none)
UpToFirstSpace(t) ==
    LET n == Cardinality({i \in 1..Len(t) : \A j \in 1..i : t[j] # 32})
    IN  SubSeq(t, 1, n)

\* what follows the first space of a name text (nothing when it has none)
AfterFirstSpace(t) == SubSeq(t, Len(UpToFirstSpace(t)) + 2, Len(t))

ErrorMessages == {MsgApiFailed, MsgBindError, MsgSearchError}

ErrorPrinted == \E i \in 1..Len(stdout) : stdout[i] \in ErrorMessages

----------------------------------------------------------------------------
(* C1 *)

----------------------------------------------------------------------------
(* C2 *)

\* C2: the hybrid-suffix normalization is idempotent: normalizing a code that
\* was normalized once changes nothing, also for codes ending in several "H".
C2_NormalizeIdempotent ==
    Len(norm_hist) >= 3 => norm_hist[3] = norm_hist[2]

----------------------------------------------------------------------------
(* C3 *)

NameStageAborted == pc = "aborted" /\ Printed(MsgMerged) /\ ~Printed(MsgNames)

\* C3: a detail response that is JSON with instructordetail_html never aborts
\* the run: a matching fragment gives first_name = the text up to the first
\* space and last_name = the rest, a fragment that does not match gives two
\* empty names, also for a text of one token; the output has one record per
\* input record, in the same order.
C3_NameResolverTotal ==
    /\ api_data.kind = "html" =>
           /\ ~NameStageAborted
           /\ Len(first_names) >= 1
           /\ Len(last_names) = Len(first_names)
           /\ Last(first_names) =
                  (IF api_data.match THEN UpToFirstSpace(api_data.text) ELSE <<>>)
           /\ Last(last_names) =
                  (IF api_data.match THEN AfterFirstSpace(api_data.text) ELSE <<>>)
    /\ Printed(MsgNames) =>
           /\ Len(df_with_full_names) = Len(df_merged)
           /\ \A i \in 1..Len(df_merged) :
                  df_with_full_names[i].Course = df_merged[i].Course

----------------------------------------------------------------------------
(* C4 *)

\* C4: merge_classes_for_instructor outputs exactly one record for each
\* instructor name of its input, none for any other name, and no more records
\* than it was given.
C4_OneRecordPerInstructor ==
    MergeDone =>
        /\ \A r \in Rows(df_without_duplicates) :
               Cardinality({i \in 1..Len(df_merged) :
                               df_merged[i].Instructor = r.Instructor}) = 1
        /\ \A i \in 1..Len(df_merged) :
               \E r \in Rows(df_without_duplicates) :
                   r.Instructor = df_merged[i].Instructor
        /\ Len(df_merged) <= Len(df_without_duplicates)

\* three deduplicated records of two instructors became two records
C4_Witness ==
    /\ MergeDone
    /\ Len(df_without_duplicates) = 3
    /\ Len(df_merged) = 2

----------------------------------------------------------------------------
(* C5 *)

\* C5: after remove_duplicates and merge_classes_for_instructor, every
\* instructor of the raw input has a row, and each row's course_codes are the
\* distinct normalized codes of that instructor's raw records, each once, in
\* first-encounter order, joined by ", "; its term and CRN are those of the
\* instructor's first raw record.
C5_CourseCodesFirstEncounter ==
    MergeDone =>
        /\ \A r \in Rows(df) :
               \E i \in 1..Len(df_merged) : df_merged[i].Instructor = r.Instructor
        /\ \A i \in 1..Len(df_merged) :
               LET name == df_merged[i].Instructor
                   mine == RecordsOf(df, name)
               IN  /\ Len(mine) >= 1
                   /\ df_merged[i].Course = Join(ExpectedCodes(df, name))
                   /\ df_merged[i].Term = mine[1].Term
                   /\ df_merged[i].CRN = mine[1].CRN

\* one instructor with "B", "AH", "A": the row reads "B, A" and keeps CRN 1
C5_Witness ==
    /\ MergeDone
    /\ Len(df) = 3
    /\ df[1].Course = <<66>>
    /\ df[2].Course = <<65, 72>>
    /\ df[3].Course = <<65>>
    /\ Len(df_merged) = 1
    /\ df_merged[1].Course = <<66, 44, 32, 65>>
    /\ df_merged[1].CRN = 1

----------------------------------------------------------------------------
(* C6 *)

\* C6: in get_emails the email of a row is the userPrincipalName of the first
\* entry of the search's response, or the absence marker when the response has
\* no entry; a response without entries does not abort the stage (only a
\* search that raises does); every row of the output has an Email.
C6_EmailFromFirstEntry ==
    /\ Len(email_list) >= 1 =>
           /\ Len(connect_response) >= 1 =>
                  Last(email_list) = connect_response[1].userPrincipalName
           /\ Len(connect_response) = 0 => Last(email_list) = None
           /\ pc = "aborted" => Last(stdout) = MsgSearchError
    /\ Printed(MsgEmails) =>
           /\ Len(df_emails) = Len(df_with_full_names)
           /\ \A i \in 1..Len(df_emails) :
                  /\ df_emails[i].Email = email_list[i]
                  /\ df_emails[i].Email \in Emails \cup {None}

\* a row without entries got the marker, and the next row was searched and got
\* the first of two entries
C6_Witness ==
    /\ Len(email_list) = 2
    /\ email_list[1] = None
    /\ Len(connect_response) = 2
    /\ email_list[2] = connect_response[1].userPrincipalName
    /\ Printed(MsgEmails)

----------------------------------------------------------------------------
(* C7 *)

\* C7: once a stage has reported an infrastructure failure the run is aborted
\* at that point (nothing is printed after the error) and the CSV file is not
\* written; an aborted run never has a CSV file; the file is written only
\* after the five stages have completed, in order.
C7_NoOutputOnFailure ==
    /\ ErrorPrinted =>
           /\ pc = "aborted"
           /\ csv = NotWritten
           /\ Last(stdout) \in ErrorMessages
           /\ \A i \in 1..(Len(stdout) - 1) : stdout[i] \notin ErrorMessages
    /\ pc = "aborted" => csv = NotWritten
    /\ csv.written =>
           /\ Len(stdout) >= 5
           /\ SubSeq(stdout, 1, 5) = <<MsgRetrieved, MsgDedup, MsgMerged, MsgNames, MsgEmails>>
    /\ csv.written <=> pc = "done"

\* a directory search failed after a row had been resolved: no file
C7_Witness ==
    /\ pc = "aborted"
    /\ Last(stdout) = MsgSearchError
    /\ Len(email_list) >= 1
    /\ csv = NotWritten

----------------------------------------------------------------------------
(* C8 *)

CRNs(frame) == {frame[i].CRN : i \in 1..Len(frame)}

\* C8: no CRN returned with isCancelled = "1" appears in the output of
\* get_classes, remove_duplicates or merge_classes_for_instructor, and every
\* later record derives from the records get_classes kept: each deduplicated
\* record is a kept record with its code normalized, each merged row belongs
\* to an instructor of a kept record and lists that instructor's kept codes,
\* and the later stages and the file keep those rows, one for one.
C8_CancelledNeverAppears ==
    /\ \A k \in 1..Len(data_frames) : CRNs(data_frames[k]) \cap cancelled = {}
    /\ CRNs(df) \cap cancelled = {}
    /\ CRNs(df_without_duplicates) \cap cancelled = {}
    /\ CRNs(df_merged) \cap cancelled = {}
    /\ \A r \in Rows(df_without_duplicates) :
           \E k \in Rows(df) :
               /\ k.CRN = r.CRN
               /\ k.Instructor = r.Instructor
               /\ Normalize(k.Course) = r.Course
    /\ \A i \in 1..Len(df_merged) :
           /\ \E k \in Rows(df) :
                  k.CRN = df_merged[i].CRN /\ k.Instructor = df_merged[i].Instructor
           /\ df_merged[i].Course = Join(ExpectedCodes(df, df_merged[i].Instructor))
    /\ Printed(MsgNames) =>
           /\ Len(df_with_full_names) = Len(df_merged)
           /\ \A i \in 1..Len(df_merged) :
                  df_with_full_names[i].Course = df_merged[i].Course
    /\ Printed(MsgEmails) =>
           /\ Len(df_emails) = Len(df_merged)
           /\ \A i \in 1..Len(df_merged) : df_emails[i].Course = df_merged[i].Course
    /\ csv.written =>
           /\ Len(csv.rows) = Len(df_merged)
           /\ \A i \in 1..Len(df_merged) : csv.rows[i][4] = df_merged[i].Course

\* the catalog returned a cancelled section first and a kept one second, and
\* the file was written with the kept one's row
C8_Witness ==
    /\ csv.written
    /\ cancelled = {1}
    /\ CRNs(df) = {2}
    /\ Len(csv.rows) = 1

----------------------------------------------------------------------------
(* C9 *)

\* C9: the directory session is bound once per run and is released on every
\* exit path of get_emails: no run ends with the session still bound.
C9_SessionReleased ==
    /\ bind_count <= 1
    /\ pc \in {"done", "aborted"} => ~conn_bound

----------------------------------------------------------------------------
(* C10 *)

\* C10 as stated: the merged rows come in group-first-encounter order: a row
\* whose instructor's first record comes earlier in the deduplicated input
\* comes earlier in the output.
C10_FirstEncounterOrder ==
    MergeDone =>
        \A i, j \in 1..Len(df_merged) :
            i < j => FirstIndex(df_without_duplicates, df_merged[i].Instructor)
                         < FirstIndex(df_without_duplicates, df_merged[j].Instructor)

\* C10 as amended: the merged rows come in ascending order of the instructor
\* display name (code-point order), whatever the order of the first records.
C10_AscendingNameOrder ==
    MergeDone =>
        \A i, j \in 1..Len(df_merged) :
            i < j => StrLess(df_merged[i].Instructor, df_merged[j].Instructor)

\* "B" was met before "A", and the row of "A" comes first
C10_Witness ==
    /\ MergeDone
    /\ Len(df_merged) = 2
    /\ df_merged[1].Instructor = <<65>>
    /\ df_merged[2].Instructor = <<66>>
    /\ df_without_duplicates[1].Instructor = <<66>>

============================================================================
